---- MODULE Spec2Model ----
(***************************************************************************)
(* A model of src/resources/subscription.rs: the request parameter         *)
(* structures and their serialization, the response resources and their    *)
(* deserialization, and the operations Subscription::{create, retrieve,     *)
(* update, cancel}, UsageRecordParams::create and UsageRecord::create as    *)
(* steps of several callers that share one client.                          *)
(*                                                                         *)
(* Four specifications share the variables:                                *)
(*   Spec     the operations, interleaved among the callers;               *)
(*   SpecSeq  the operations of one caller, over wider inputs;             *)
(*   SpecSer  serialization of one parameter structure;                    *)
(*   SpecDe   deserialization of one response JSON object.                 *)
(***************************************************************************)
EXTENDS Integers, Sequences, FiniteSets, TLC

\* ------------------------------------------------------------- bounds
NumCallers == 2
MaxClock == 2
MaxOps == 2
MaxMutated == 2

Callers == 1..NumCallers
Ids == {"", "sub_1", "a/b?c"}
Quantities == {0, 7}
Statuses == {"active", "canceled", "on_hold"}

\* ------------------------------------------------- Option and Result
None == <<>>
Some(v) == <<v>>
Opt(S) == {None} \cup {Some(v) : v \in S}
Ok(v) == <<"Ok", v>>
Err(e) == <<"Err", e>>
IsOk(r) == r[1] = "Ok"
IsErr(r) == r[1] = "Err"

VARIABLES
  now,         \* the wall clock read by Utc::now()
  ops,         \* functions of the module called so far
  pc,          \* per caller: "idle", "waiting" (blocked in the client), "done"
  call,        \* per caller: the function called and its arguments
  held,        \* per caller: the UsageRecordParams value it holds, if any,
               \* with the arguments and the time of the call that made it
  request,     \* per caller: the client call the operation issued, if any
  calls,       \* per caller: client calls the current operation has issued
  reply,       \* per caller: what came back over the wire, if anything
  result,      \* per caller: what the operation returned, if it has
  paramsKind,  \* SpecSer: which parameter structure
  paramsVal,   \* SpecSer: its value
  payload,     \* SpecSer: its serialization, once made
  fixtureKind, \* SpecDe: which resource the JSON is read as
  fixture,     \* SpecDe: the response JSON object
  mutated,     \* SpecDe: fields of the fixture changed from the valid one
  decoded      \* SpecDe: the result of deserializing it, once made

opVars == <<now, ops, pc, call, held, request, calls, reply, result>>
serVars == <<paramsKind, paramsVal, payload>>
deVars == <<fixtureKind, fixture, mutated, decoded>>
vars == <<opVars, serVars, deVars>>

\* ------------------------------------------------------ serialization
\* A payload is the sequence of <<key, <<type, value>>>> pairs the derived
\* Serialize hands to the serializer, in field order.

\* A field without skip_serializing_if: always written.
Field(key, ty, v) == << <<key, <<ty, v>>>> >>

\* The same field with the attribute missing: None is written as a unit value.
OptField_NoSkip(key, ty, opt) ==
  IF opt = None THEN << <<key, <<"none", "none">>>> >> ELSE Field(key, ty, opt[1])

\* #[serde(skip_serializing_if = "Option::is_none")] on an Option field.
OptField(key, ty, opt) ==
  IF opt = None THEN <<>> ELSE Field(key, ty, opt[1])

SerializeCancelParams(p) ==
  OptField("at_period_end", "bool", p.at_period_end)

SerializeItemParams(p) ==
  Field("plan", "str", p.plan) \o OptField("quantity", "u64", p.quantity)

\* #[serde(untagged)]: the variant's content alone.
SerializeTrialEnd(t) ==
  IF t[1] = "Timestamp" THEN <<"i64", t[2]>> ELSE <<"str", t[2]>>

SerializeItems(items) ==
  [i \in 1..Len(items) |-> SerializeItemParams(items[i])]

SerializeSubscriptionParams(p) ==
     OptField("customer", "str", p.customer)
  \o OptField("application_fee_percent", "f64", p.application_fee_percent)
  \o OptField("coupon", "str", p.coupon)
  \o (IF p.items = None THEN <<>>
      ELSE Field("items", "seq", SerializeItems(p.items[1])))
  \o OptField("metadata", "map", p.metadata)
  \o OptField("plan", "str", p.plan)
  \o OptField("prorate", "bool", p.prorate)
  \o OptField("proration_date", "i64", p.proration_date)
  \o OptField("quantity", "u64", p.quantity)
  \o OptField("source", "str", p.source)
  \o OptField("tax_percent", "f64", p.tax_percent)
  \o (IF p.trial_end = None THEN <<>>
      ELSE << <<"trial_end", SerializeTrialEnd(p.trial_end[1])>> >>)
  \o OptField("trial_period_days", "u64", p.trial_period_days)

SerializeUsageRecordParams(p) ==
     Field("timestamp", "i64", p.timestamp)
  \o Field("quantity", "u64", p.quantity)
  \o OptField("action", "str", p.action)

Keys(pl) == {pl[i][1] : i \in 1..Len(pl)}
IndexOf(pl, key) == (CHOOSE i \in 1..Len(pl) : pl[i][1] = key)
EntryOf(pl, key) == pl[IndexOf(pl, key)][2]

\* -------------------------------------------- the parameter structures
ItemParamsSet == [plan : {"gold"}, quantity : Opt({2})]

CancelParamsSet == [at_period_end : Opt(BOOLEAN)]

\* #[derive(Default)]: every field None.
DefaultSubscriptionParams ==
  [customer |-> None, application_fee_percent |-> None, coupon |-> None,
   items |-> None, metadata |-> None, plan |-> None, prorate |-> None,
   proration_date |-> None, quantity |-> None, source |-> None,
   tax_percent |-> None, trial_end |-> None, trial_period_days |-> None]

DefaultCancelParams == [at_period_end |-> None]

SubscriptionParamsSet ==
  [customer : Opt({"cus_1"}),
   application_fee_percent : Opt({10}),
   coupon : Opt({"half"}),
   items : {None, Some(<<>>)} \cup {Some(<<i>>) : i \in ItemParamsSet},
   metadata : Opt({"meta_1"}),
   plan : Opt({"gold"}),
   prorate : Opt({FALSE}),
   proration_date : Opt({1}),
   quantity : Opt({3}),
   source : Opt({"tok_1"}),
   tax_percent : Opt({20}),
   trial_end : Opt({<<"Timestamp", 9>>, <<"Special", "now">>}),
   trial_period_days : Opt({14})]

UsageRecordParamsSet ==
  [timestamp : 0..MaxClock, quantity : Quantities,
   action : Opt({"increment", "set"})]

\* ------------------------------------------------------ JSON responses
\* A JSON object is a function from the keys a resource knows to JSON values;
\* a key the object lacks maps to Absent.
Absent == <<"absent">>
JNull == <<"null">>
JStr(s) == <<"str", s>>
JNum(n) == <<"num", n>>
JBool(b) == <<"bool", b>>
JObj(kind, token) == <<"obj", kind, token>>
JList(items) == <<"list", items>>

Fld(n, t, o) == [name |-> n, ty |-> t, optional |-> o]

SubscriptionItemFields ==
  << Fld("id", "String", FALSE),
     Fld("created", "Timestamp", FALSE),
     Fld("plan", "Plan", FALSE),
     Fld("quantity", "u64", TRUE) >>

SubscriptionFields ==
  << Fld("id", "String", FALSE),
     Fld("application_fee_percent", "f64", TRUE),
     Fld("cancel_at_period_end", "bool", FALSE),
     Fld("canceled_at", "Timestamp", TRUE),
     Fld("created", "Timestamp", TRUE),
     Fld("current_period_start", "Timestamp", FALSE),
     Fld("current_period_end", "Timestamp", FALSE),
     Fld("customer", "String", FALSE),
     Fld("discount", "Discount", TRUE),
     Fld("ended_at", "Timestamp", TRUE),
     Fld("items", "List<SubscriptionItem>", FALSE),
     Fld("livemode", "bool", FALSE),
     Fld("metadata", "Metadata", FALSE),
     Fld("plan", "Plan", FALSE),
     Fld("quantity", "u64", TRUE),
     Fld("start", "Timestamp", FALSE),
     Fld("status", "String", FALSE),
     Fld("tax_percent", "f64", TRUE),
     Fld("trial_start", "Timestamp", TRUE),
     Fld("trial_end", "Timestamp", TRUE) >>

UsageRecordFields ==
  << Fld("id", "String", FALSE),
     Fld("object", "String", FALSE),
     Fld("livemode", "bool", FALSE),
     Fld("quantity", "u64", FALSE),
     Fld("subscription_item", "String", FALSE),
     Fld("timestamp", "Timestamp", FALSE) >>

Names(fields) == {fields[i].name : i \in 1..Len(fields)}
FieldNamed(fields, n) == fields[CHOOSE i \in 1..Len(fields) : fields[i].name = n]

\* The resources this file only names (Plan, Discount, Metadata): a JSON
\* object of that kind is read into the value it stands for.
AcceptsForeign(ty, v) == v[1] = "obj" /\ v[2] = ty
ForeignValue(v) == v[3]

RECURSIVE DeserializeStruct(_, _)

\* Whether JSON value v (present, not null) reads as a value of type ty.
Accepts(ty, v) ==
  CASE ty = "String" -> v[1] = "str"
    [] ty \in {"Timestamp", "f64"} -> v[1] = "num"
    [] ty = "u64" -> v[1] = "num" /\ v[2] >= 0
    [] ty = "bool" -> v[1] = "bool"
    [] ty = "List<SubscriptionItem>" ->
         /\ v[1] = "list"
         /\ \A i \in 1..Len(v[2]) :
              IsOk(DeserializeStruct(SubscriptionItemFields, v[2][i]))
    [] OTHER -> AcceptsForeign(ty, v)

ValueAs(ty, v) ==
  CASE ty \in {"String", "Timestamp", "f64", "u64", "bool"} -> v[2]
    [] ty = "List<SubscriptionItem>" ->
         [i \in 1..Len(v[2]) |->
            DeserializeStruct(SubscriptionItemFields, v[2][i])[2]]
    [] OTHER -> ForeignValue(v)

\* A null refused even where the field is an Option.
FieldFails_NullRejected(f, v) ==
  IF v = Absent THEN ~f.optional
  ELSE IF v = JNull THEN TRUE
  ELSE ~Accepts(f.ty, v)

\* A field fails when it is required and missing or null, or has the wrong type.
FieldFails(f, v) ==
  IF v \in {Absent, JNull} THEN ~f.optional ELSE ~Accepts(f.ty, v)

FieldValue(f, v) ==
  IF f.optional
    THEN (IF v \in {Absent, JNull} THEN None ELSE Some(ValueAs(f.ty, v)))
    ELSE ValueAs(f.ty, v)

\* #[derive(Deserialize)] on a struct with the given fields.
DeserializeStruct(fields, json) ==
  IF \E i \in 1..Len(fields) : FieldFails(fields[i], json[fields[i].name])
    THEN Err("deserialize")
    ELSE Ok([n \in Names(fields) |->
               FieldValue(FieldNamed(fields, n), json[n])])

FieldsOf(kind) ==
  CASE kind = "Subscription" -> SubscriptionFields
    [] kind = "SubscriptionItem" -> SubscriptionItemFields
    [] kind = "UsageRecord" -> UsageRecordFields

Deserialize(kind, json) == DeserializeStruct(FieldsOf(kind), json)

\* Valid response objects, as the remote service sends them.
SubscriptionItemJson(id) ==
  [id |-> JStr(id), created |-> JNum(1), plan |-> JObj("Plan", "gold"),
   quantity |-> JNum(2)]

SubscriptionJson(id, status) ==
  [id |-> JStr(id),
   application_fee_percent |-> JNum(10),
   cancel_at_period_end |-> JBool(FALSE),
   canceled_at |-> JNum(4),
   created |-> JNum(1),
   current_period_start |-> JNum(1),
   current_period_end |-> JNum(5),
   customer |-> JStr("cus_1"),
   discount |-> JObj("Discount", "half"),
   ended_at |-> JNum(4),
   items |-> JList(<<SubscriptionItemJson("si_1")>>),
   livemode |-> JBool(FALSE),
   metadata |-> JObj("Metadata", "meta_1"),
   plan |-> JObj("Plan", "gold"),
   quantity |-> JNum(3),
   start |-> JNum(1),
   status |-> JStr(status),
   tax_percent |-> JNum(20),
   trial_start |-> JNum(1),
   trial_end |-> JNum(2)]

UsageRecordJson(item, quantity, timestamp) ==
  [id |-> JStr("mbur_1"), object |-> JStr("usage_record"),
   livemode |-> JBool(FALSE), quantity |-> JNum(quantity),
   subscription_item |-> JStr(item), timestamp |-> JNum(timestamp)]

\* ---------------------------------------------------------- requests
BoolText(b) == IF b THEN "true" ELSE "false"

\* serde_qs writes each pair of the payload as key=value, joined by "&".
RECURSIVE QsPairs(_)
QsPairs(pl) ==
  IF pl = <<>> THEN ""
  ELSE LET v == pl[1][2]
           text == IF v[1] = "bool" THEN BoolText(v[2]) ELSE v[2]
           rest == QsPairs(Tail(pl))
       IN pl[1][1] \o "=" \o text \o (IF rest = "" THEN "" ELSE "&" \o rest)

\* qs::to_string(&params): the encoded text, or the encoder's error.
QsToString(params, encodes) ==
  IF encodes THEN Ok(QsPairs(SerializeCancelParams(params))) ELSE Err("encode")

Req(verb, path, body) == [verb |-> verb, path |-> path, body |-> body]

CreateRequest(params) ==
  Req("POST", "/subscriptions", Some(SerializeSubscriptionParams(params)))

\* The identifier percent-escaped before it is put in the path.
RECURSIVE Escaped(_)
Escaped(id) ==
  IF id = "" THEN ""
  ELSE LET ch == SubSeq(id, 1, 1)
       IN (CASE ch = "/" -> "%2F" [] ch = "?" -> "%3F" [] OTHER -> ch)
            \o Escaped(SubSeq(id, 2, Len(id)))

SubscriptionPath_Escaped(id) == "/subscriptions/" \o Escaped(id)

\* format!("/subscriptions/{}", subscription_id)
SubscriptionPath(id) == "/subscriptions/" \o id

RetrieveRequest(id) == Req("GET", SubscriptionPath(id), None)

UpdateRequest(id, params) ==
  Req("POST", SubscriptionPath(id), Some(SerializeSubscriptionParams(params)))

\* The query string left off when it is empty.
CancelPath_NoEmptyQuery(id, query) ==
  IF query = "" THEN SubscriptionPath(id)
  ELSE SubscriptionPath(id) \o "?" \o query

\* format!("/subscriptions/{}?{}", subscription_id, query)
CancelPath(id, query) == "/subscriptions/" \o id \o "?" \o query

CancelRequest(id, query) == Req("DELETE", CancelPath(id, query), None)

\* format!("/subscription_items/{}/usage_records", subscription_item_id)
UsageRecordsPath(item) == "/subscription_items/" \o item \o "/usage_records"

UsageRecordRequest(item, params) ==
  Req("POST", UsageRecordsPath(item), Some(SerializeUsageRecordParams(params)))

\* ------------------------------------------------------ usage records
UsageRecordActions == {"Increment", "Set"}

UsageRecordAction_name(a) ==
  CASE a = "Increment" -> "increment"
    [] a = "Set" -> "set"

\* UsageRecordParams::create that never reads the clock.
NewUsageRecordParams_EpochStamp(quantity, action, clock) ==
  [timestamp |-> 0, quantity |-> quantity,
   action |-> IF action = None THEN None
              ELSE Some(UsageRecordAction_name(action[1]))]

\* UsageRecordParams::create(quantity, action), with Utc::now() read as clock.
NewUsageRecordParams(quantity, action, clock) ==
  [timestamp |-> clock, quantity |-> quantity,
   action |-> IF action = None THEN None
              ELSE Some(UsageRecordAction_name(action[1]))]

\* ---------------------------------------------------------- the client
\* What comes back over the wire for a call.
BadSubscriptionJson(id) ==
  [SubscriptionJson(id, "active") EXCEPT !["customer"] = Absent]

Wires(c, statuses) ==
  LET fn == call[c].fn
      id == IF fn = "Subscription::create" THEN "sub_1" ELSE call[c].id
  IN {<<"network">>, <<"status">>}
       \cup (IF fn = "UsageRecord::create"
               THEN {<<"body", UsageRecordJson(id, call[c].params.quantity,
                                                call[c].params.timestamp)>>,
                     <<"body", [UsageRecordJson(id, 0, 0)
                                  EXCEPT !["id"] = JNull]>>}
               ELSE {<<"body", SubscriptionJson(id, s)>> : s \in statuses}
                      \cup {<<"body", BadSubscriptionJson(id)>>})

ResourceOf(fn) ==
  IF fn = "UsageRecord::create" THEN "UsageRecord" ELSE "Subscription"

\* The client's result for a call: a transport or HTTP-status error, or the
\* body deserialized into the resource the operation returns.
ClientResult(fn, wire) ==
  CASE wire[1] = "network" -> Err("network")
    [] wire[1] = "status" -> Err("status")
    [] wire[1] = "body" -> Deserialize(ResourceOf(fn), wire[2])

\* ------------------------------------------------------ the operations
NoCall == [fn |-> "none", id |-> "", params |-> None, encodes |-> TRUE,
           known |-> FALSE, at |-> 0, given |-> None]

CanBegin(c) == pc[c] \in {"idle", "done"} /\ ops < MaxOps

\* Whether the caller's last operation returned this subscription as canceled.
KnownCanceled(c, id) ==
  /\ pc[c] = "done"
  /\ call[c].fn \in {"Subscription::create", "Subscription::retrieve",
                     "Subscription::update", "Subscription::cancel"}
  /\ result[c] # None
  /\ IsOk(result[c][1])
  /\ result[c][1][2].id = id
  /\ result[c][1][2].status = "canceled"

\* The caller enters the function: its arguments are bound, nothing is sent.
\* known, at and given record the circumstances of the call: whether the
\* subscription was known to be canceled, the time, and (for a usage record)
\* what UsageRecordParams::create had been given.
Enter(c, fn, id, params, encodes, given) ==
  /\ CanBegin(c)
  /\ ops' = ops + 1
  /\ call' = [call EXCEPT ![c] =
               [fn |-> fn, id |-> id, params |-> params, encodes |-> encodes,
                known |-> KnownCanceled(c, id), at |-> now, given |-> given]]
  /\ reply' = [reply EXCEPT ![c] = None]
  /\ UNCHANGED now

\* client.post / client.get / client.delete: the call goes out and blocks.
Issue(c, req) ==
  /\ request' = [request EXCEPT ![c] = Some(req)]
  /\ calls' = [calls EXCEPT ![c] = 1]
  /\ pc' = [pc EXCEPT ![c] = "waiting"]
  /\ result' = [result EXCEPT ![c] = None]

\* The function returns r without having called the client.
ReturnEarly(c, r) ==
  /\ request' = [request EXCEPT ![c] = None]
  /\ calls' = [calls EXCEPT ![c] = 0]
  /\ pc' = [pc EXCEPT ![c] = "done"]
  /\ result' = [result EXCEPT ![c] = Some(r)]

Subscription_create(c, params) ==
  /\ Enter(c, "Subscription::create", "", params, TRUE, None)
  /\ Issue(c, CreateRequest(params))
  /\ UNCHANGED <<held, serVars, deVars>>

Subscription_retrieve(c, id) ==
  /\ Enter(c, "Subscription::retrieve", id, None, TRUE, None)
  /\ Issue(c, RetrieveRequest(id))
  /\ UNCHANGED <<held, serVars, deVars>>

\* update with a local lifecycle check: a canceled subscription is refused.
Subscription_update_RefuseCanceled(c, id, params) ==
  /\ Enter(c, "Subscription::update", id, params, TRUE, None)
  /\ IF KnownCanceled(c, id)
       THEN ReturnEarly(c, Err("canceled"))
       ELSE Issue(c, UpdateRequest(id, params))
  /\ UNCHANGED <<held, serVars, deVars>>

Subscription_update(c, id, params) ==
  /\ Enter(c, "Subscription::update", id, params, TRUE, None)
  /\ Issue(c, UpdateRequest(id, params))
  /\ UNCHANGED <<held, serVars, deVars>>

\* cancel with the DELETE sent before the encoding is looked at.
Subscription_cancel_DeleteFirst(c, id, params, encodes) ==
  /\ Enter(c, "Subscription::cancel", id, params, encodes, None)
  /\ LET q == QsToString(params, encodes)
     IN IF IsErr(q)
          THEN /\ request' = [request EXCEPT ![c] = Some(CancelRequest(id, ""))]
               /\ calls' = [calls EXCEPT ![c] = 1]
               /\ pc' = [pc EXCEPT ![c] = "done"]
               /\ result' = [result EXCEPT ![c] = Some(q)]
          ELSE Issue(c, CancelRequest(id, q[2]))
  /\ UNCHANGED <<held, serVars, deVars>>

\* qs::to_string(&params)? is evaluated first: its error returns at once.
Subscription_cancel(c, id, params, encodes) ==
  /\ Enter(c, "Subscription::cancel", id, params, encodes, None)
  /\ LET q == QsToString(params, encodes)
     IN IF IsErr(q)
          THEN ReturnEarly(c, q)
          ELSE Issue(c, CancelRequest(id, q[2]))
  /\ UNCHANGED <<held, serVars, deVars>>

\* UsageRecordParams::create: builds the value; no client is involved.
UsageRecordParams_create(c, quantity, action) ==
  /\ CanBegin(c)
  /\ ops' = ops + 1
  /\ held' = [held EXCEPT ![c] =
               Some([params |-> NewUsageRecordParams(quantity, action, now),
                     quantity |-> quantity, action |-> action, at |-> now])]
  /\ UNCHANGED <<now, pc, call, request, calls, reply, result>>
  /\ UNCHANGED <<serVars, deVars>>

\* UsageRecord::create(client, subscription_item_id, params): params is moved in.
UsageRecord_create(c, item) ==
  /\ held[c] # None
  /\ Enter(c, "UsageRecord::create", item, held[c][1].params, TRUE,
           Some([quantity |-> held[c][1].quantity, action |-> held[c][1].action,
                 at |-> held[c][1].at]))
  /\ Issue(c, UsageRecordRequest(item, held[c][1].params))
  /\ held' = [held EXCEPT ![c] = None]
  /\ UNCHANGED <<serVars, deVars>>

\* The operation's value is the client call's value.
Returned(r) == r

\* On an error the call is sent once more.
Complete_Retry(c, wire) ==
  /\ pc[c] = "waiting"
  /\ LET r == ClientResult(call[c].fn, wire)
     IN IF IsErr(r) /\ calls[c] < 2
          THEN /\ calls' = [calls EXCEPT ![c] = @ + 1]
               /\ UNCHANGED <<pc, reply, result>>
          ELSE /\ reply' = [reply EXCEPT ![c] = Some(wire)]
               /\ result' = [result EXCEPT ![c] = Some(Returned(r))]
               /\ pc' = [pc EXCEPT ![c] = "done"]
               /\ UNCHANGED calls
  /\ UNCHANGED <<now, ops, call, held, request>>
  /\ UNCHANGED <<serVars, deVars>>

\* The result kept in one slot all callers read.
Complete_SharedSlot(c, wire) ==
  /\ pc[c] = "waiting"
  /\ reply' = [reply EXCEPT ![c] = Some(wire)]
  /\ result' = [d \in Callers |->
                  IF d = c \/ pc[d] = "done"
                    THEN Some(Returned(ClientResult(call[c].fn, wire)))
                    ELSE result[d]]
  /\ pc' = [pc EXCEPT ![c] = "done"]
  /\ UNCHANGED <<now, ops, call, held, request, calls>>
  /\ UNCHANGED <<serVars, deVars>>

\* The blocked client call comes back and the operation returns.
Complete(c, wire) ==
  /\ pc[c] = "waiting"
  /\ reply' = [reply EXCEPT ![c] = Some(wire)]
  /\ result' = [result EXCEPT ![c] = Some(Returned(ClientResult(call[c].fn, wire)))]
  /\ pc' = [pc EXCEPT ![c] = "done"]
  /\ UNCHANGED <<now, ops, call, held, request, calls>>
  /\ UNCHANGED <<serVars, deVars>>

\* Time passes.
Tick ==
  /\ now < MaxClock
  /\ now' = now + 1
  /\ UNCHANGED <<ops, pc, call, held, request, calls, reply, result>>
  /\ UNCHANGED <<serVars, deVars>>

InitOps ==
  /\ now = 0
  /\ ops = 0
  /\ pc = [c \in Callers |-> "idle"]
  /\ call = [c \in Callers |-> NoCall]
  /\ held = [c \in Callers |-> None]
  /\ request = [c \in Callers |-> None]
  /\ calls = [c \in Callers |-> 0]
  /\ reply = [c \in Callers |-> None]
  /\ result = [c \in Callers |-> None]

InitSerIdle ==
  /\ paramsKind = "CancelParams"
  /\ paramsVal = DefaultCancelParams
  /\ payload = None

InitDeIdle ==
  /\ fixtureKind = "UsageRecord"
  /\ fixture = UsageRecordJson("si_1", 0, 0)
  /\ mutated = {}
  /\ decoded = None

Init == InitOps /\ InitSerIdle /\ InitDeIdle

\* The inputs of Spec, where the callers interleave: few values of each
\* argument, and no passing of time, which SpecSeq covers.
SharedIds == {"sub_1", "a/b?c"}
SharedParams == {DefaultSubscriptionParams}
SharedCancelParams == {[at_period_end |-> Some(TRUE)]}
SharedQuantities == {7}
SharedActions == {Some("Set")}
SharedStatuses == {"canceled"}

Next ==
  \/ \E c \in Callers, p \in SharedParams : Subscription_create(c, p)
  \/ \E c \in Callers, id \in SharedIds : Subscription_retrieve(c, id)
  \/ \E c \in Callers, id \in SharedIds, p \in SharedParams :
       Subscription_update(c, id, p)
  \/ \E c \in Callers, id \in SharedIds, p \in SharedCancelParams, e \in BOOLEAN :
       Subscription_cancel(c, id, p, e)
  \/ \E c \in Callers, q \in SharedQuantities, a \in SharedActions :
       UsageRecordParams_create(c, q, a)
  \/ \E c \in Callers, item \in SharedIds : UsageRecord_create(c, item)
  \/ \E c \in Callers : \E w \in Wires(c, SharedStatuses) : Complete(c, w)

Spec == Init /\ [][Next]_vars

\* The inputs of SpecSeq, one caller's operations one after the other.
OpParams ==
  {DefaultSubscriptionParams,
   [DefaultSubscriptionParams EXCEPT !.plan = Some("gold"), !.quantity = Some(3)]}

NextSeq ==
  \/ \E p \in OpParams : Subscription_create(1, p)
  \/ \E id \in Ids : Subscription_retrieve(1, id)
  \/ \E id \in Ids, p \in OpParams : Subscription_update(1, id, p)
  \/ \E id \in Ids, p \in CancelParamsSet, e \in BOOLEAN :
       Subscription_cancel(1, id, p, e)
  \/ \E q \in Quantities, a \in Opt(UsageRecordActions) :
       UsageRecordParams_create(1, q, a)
  \/ \E item \in Ids : UsageRecord_create(1, item)
  \/ \E w \in Wires(1, Statuses) : Complete(1, w)
  \/ Tick

SpecSeq == Init /\ [][NextSeq]_vars

\* ------------------------------------------- SpecSer: serialization
SerializeParams(kind, p) ==
  CASE kind = "SubscriptionParams" -> SerializeSubscriptionParams(p)
    [] kind = "CancelParams" -> SerializeCancelParams(p)
    [] kind = "ItemParams" -> SerializeItemParams(p)
    [] kind = "UsageRecordParams" -> SerializeUsageRecordParams(p)

InitSer ==
  /\ InitOps /\ InitDeIdle
  /\ payload = None
  /\ \/ paramsKind = "SubscriptionParams" /\ paramsVal \in SubscriptionParamsSet
     \/ paramsKind = "CancelParams" /\ paramsVal \in CancelParamsSet
     \/ paramsKind = "ItemParams" /\ paramsVal \in ItemParamsSet
     \/ paramsKind = "UsageRecordParams" /\ paramsVal \in UsageRecordParamsSet

\* The structure is handed to the serializer.
Serialize(kind) ==
  /\ paramsKind = kind
  /\ payload = None
  /\ payload' = Some(SerializeParams(kind, paramsVal))
  /\ UNCHANGED <<paramsKind, paramsVal, opVars, deVars>>

NextSer ==
  \/ Serialize("SubscriptionParams")
  \/ Serialize("CancelParams")
  \/ Serialize("ItemParams")
  \/ Serialize("UsageRecordParams")

SpecSer == InitSer /\ [][NextSer]_vars

\* ------------------------------------------ SpecDe: deserialization
BadItemJson == [SubscriptionItemJson("si_1") EXCEPT !["id"] = Absent]

\* What a field of a response may hold instead of its valid value.
Mutations(ty) ==
  {Absent, JNull}
    \cup (CASE ty = "String" -> {JNum(1)}
            [] ty = "u64" -> {JStr("oops"), JNum(-1)}
            [] ty = "List<SubscriptionItem>" ->
                 {JStr("oops"), JList(<<BadItemJson>>), JList(<<>>)}
            [] OTHER -> {JStr("oops")})

InitDe ==
  /\ InitOps /\ InitSerIdle
  /\ mutated = {}
  /\ decoded = None
  /\ \/ /\ fixtureKind = "Subscription"
        /\ \E s \in {"active", "on_hold"} : fixture = SubscriptionJson("sub_1", s)
     \/ /\ fixtureKind = "SubscriptionItem"
        /\ fixture = SubscriptionItemJson("si_1")
     \/ /\ fixtureKind = "UsageRecord"
        /\ \E q \in Quantities : fixture = UsageRecordJson("si_1", q, 1)

\* The remote sends something else in field n.
Mutate(n, v) ==
  /\ decoded = None
  /\ n \notin mutated
  /\ Cardinality(mutated) < MaxMutated
  /\ fixture' = [fixture EXCEPT ![n] = v]
  /\ mutated' = mutated \cup {n}
  /\ UNCHANGED <<fixtureKind, decoded, opVars, serVars>>

\* The client reads the body as the resource.
Decode ==
  /\ decoded = None
  /\ decoded' = Some(Deserialize(fixtureKind, fixture))
  /\ UNCHANGED <<fixtureKind, fixture, mutated, opVars, serVars>>

NextDe ==
  \/ \E i \in 1..Len(FieldsOf(fixtureKind)) :
       \E v \in Mutations(FieldsOf(fixtureKind)[i].ty) :
         Mutate(FieldsOf(fixtureKind)[i].name, v)
  \/ Decode

SpecDe == InitDe /\ [][NextDe]_vars

\* ============================================================ claims
SubscriptionOps ==
  {"Subscription::create", "Subscription::retrieve", "Subscription::update",
   "Subscription::cancel"}

StartsWith(s, prefix) ==
  Len(s) >= Len(prefix) /\ SubSeq(s, 1, Len(prefix)) = prefix

\* The request an operation makes, as a function of its own arguments alone.
OwnRequest(cl) ==
  CASE cl.fn = "Subscription::create" -> Some(CreateRequest(cl.params))
    [] cl.fn = "Subscription::retrieve" -> Some(RetrieveRequest(cl.id))
    [] cl.fn = "Subscription::update" -> Some(UpdateRequest(cl.id, cl.params))
    [] cl.fn = "Subscription::cancel" ->
         IF cl.encodes
           THEN Some(CancelRequest(cl.id, QsToString(cl.params, TRUE)[2]))
           ELSE None
    [] cl.fn = "UsageRecord::create" -> Some(UsageRecordRequest(cl.id, cl.params))
    [] OTHER -> None

\* C1: Subscription::cancel: when encoding the parameters as a query string
\* fails, cancel returns that error and no DELETE is ever issued; a DELETE is
\* issued only when the encoding has succeeded.
C1_EncodeErrorBeforeDelete ==
  \A c \in Callers :
    call[c].fn = "Subscription::cancel" =>
      /\ ~call[c].encodes =>
           /\ pc[c] = "done"
           /\ result[c] = Some(Err("encode"))
           /\ request[c] = None
           /\ calls[c] = 0
      /\ request[c] # None => call[c].encodes

C1_Witness_EncodeFailed ==
  \E c \in Callers :
    /\ call[c].fn = "Subscription::cancel"
    /\ ~call[c].encodes
    /\ pc[c] = "done"
    /\ result[c] = Some(Err("encode"))

\* The names of the fields, as the structures declare them.
OptionalParams(kind) ==
  CASE kind = "SubscriptionParams" ->
         {"customer", "application_fee_percent", "coupon", "items", "metadata",
          "plan", "prorate", "proration_date", "quantity", "source",
          "tax_percent", "trial_end", "trial_period_days"}
    [] kind = "CancelParams" -> {"at_period_end"}
    [] kind = "ItemParams" -> {"quantity"}
    [] kind = "UsageRecordParams" -> {"action"}

RequiredParams(kind) ==
  CASE kind = "ItemParams" -> {"plan"}
    [] kind = "UsageRecordParams" -> {"timestamp", "quantity"}
    [] OTHER -> {}

\* C2: for every combination of set and unset optional fields of the four
\* parameter structures, the serialized payload has a key for exactly the
\* optional fields that are Some and none for a field that is None; the
\* required fields are always present; no key appears twice.
C2_KeysAreTheSetFields ==
  payload # None =>
    LET pl == payload[1]
    IN /\ \A n \in OptionalParams(paramsKind) :
            (n \in Keys(pl)) <=> (paramsVal[n] # None)
       /\ RequiredParams(paramsKind) \subseteq Keys(pl)
       /\ Keys(pl) \subseteq OptionalParams(paramsKind) \cup RequiredParams(paramsKind)
       /\ Cardinality(Keys(pl)) = Len(pl)

C2_Witness_SomeSetSomeUnset ==
  /\ payload # None
  /\ paramsKind = "SubscriptionParams"
  /\ paramsVal.customer # None
  /\ paramsVal.trial_end # None
  /\ paramsVal.plan = None
  /\ paramsVal.items = None
  /\ Keys(payload[1]) = {n \in OptionalParams(paramsKind) : paramsVal[n] # None}
  /\ "customer" \in Keys(payload[1])
  /\ "plan" \notin Keys(payload[1])

\* C3: for every identifier, put in verbatim (the empty string and one with
\* "/" and "?" included), the operations target: create -> POST
\* "/subscriptions"; retrieve -> GET "/subscriptions/" + id; update -> POST
\* "/subscriptions/" + id; cancel -> DELETE on a path that starts with
\* "/subscriptions/" + id; UsageRecord::create -> POST
\* "/subscription_items/" + id + "/usage_records".
C3_VerbsAndPaths ==
  \A c \in Callers :
    request[c] # None =>
      LET r == request[c][1]
          fn == call[c].fn
          id == call[c].id
      IN /\ fn = "Subscription::create" =>
              r.verb = "POST" /\ r.path = "/subscriptions"
         /\ fn = "Subscription::retrieve" =>
              r.verb = "GET" /\ r.path = "/subscriptions/" \o id
         /\ fn = "Subscription::update" =>
              r.verb = "POST" /\ r.path = "/subscriptions/" \o id
         /\ fn = "Subscription::cancel" =>
              r.verb = "DELETE" /\ StartsWith(r.path, "/subscriptions/" \o id)
         /\ fn = "UsageRecord::create" =>
              /\ r.verb = "POST"
              /\ r.path = "/subscription_items/" \o id \o "/usage_records"
         /\ (fn = "Subscription::retrieve" /\ id = "a/b?c") =>
              r.path = "/subscriptions/a/b?c"
         /\ (fn = "Subscription::update" /\ id = "") =>
              r.path = "/subscriptions/"
         /\ (fn = "UsageRecord::create" /\ id = "a/b?c") =>
              r.path = "/subscription_items/a/b?c/usage_records"

C3_Witness_VerbatimId ==
  \E c \in Callers :
    /\ call[c].fn = "Subscription::update"
    /\ call[c].id = "a/b?c"
    /\ request[c] # None
    /\ request[c][1].verb = "POST"
    /\ request[c][1].path = "/subscriptions/a/b?c"

\* C4: whatever the client's outcome (a resource, a network error, an
\* HTTP-status error, a deserialization error), the operation returns exactly
\* the client's result, and an operation issues at most one client call: no
\* second call follows a failed one and no error is turned into a success.
C4_ClientResultUnchanged ==
  \A c \in Callers :
    /\ calls[c] <= 1
    /\ (pc[c] = "done" /\ reply[c] # None) =>
         /\ calls[c] = 1
         /\ result[c] = Some(ClientResult(call[c].fn, reply[c][1]))
         /\ reply[c][1][1] \in {"network", "status"} => IsErr(result[c][1])

C4_Witness_ErrorReturned ==
  \E c \in Callers :
    /\ pc[c] = "done"
    /\ reply[c] = Some(<<"network">>)
    /\ result[c] = Some(Err("network"))
    /\ calls[c] = 1

ClaimedName(a) == IF a = "Increment" THEN "increment" ELSE "set"

UsagePosted(c) == call[c].fn = "UsageRecord::create" /\ request[c] # None

\* What C5 says of the posted record apart from its timestamp.
UsagePostCarries(c) ==
  LET r == request[c][1]
      b == r.body[1]
      g == call[c].given[1]
  IN /\ r.verb = "POST"
     /\ r.path = "/subscription_items/" \o call[c].id \o "/usage_records"
     /\ EntryOf(b, "quantity") = <<"u64", g.quantity>>
     /\ g.action # None =>
          /\ "action" \in Keys(b)
          /\ EntryOf(b, "action") = <<"str", ClaimedName(g.action[1])>>

\* C5 as stated: the posted usage record carries the given quantity and the
\* name of the given action, and its timestamp is the wall-clock time of the
\* call that performs the POST.
C5_StampedAtPost ==
  \A c \in Callers :
    UsagePosted(c) =>
      /\ UsagePostCarries(c)
      /\ EntryOf(request[c][1].body[1], "timestamp") = <<"i64", call[c].at>>

\* C5 as amended: usage record creation is two calls,
\* UsageRecordParams::create(quantity, action) and then
\* UsageRecord::create(client, subscription_item_id, params); the posted record
\* carries the given quantity and the name of the given action, and its
\* timestamp is the wall-clock time of the UsageRecordParams::create call, which
\* is not later than the time of the call that performs the POST.
C5_StampedAtBuild ==
  \A c \in Callers :
    UsagePosted(c) =>
      /\ UsagePostCarries(c)
      /\ EntryOf(request[c][1].body[1], "timestamp") = <<"i64", call[c].given[1].at>>
      /\ call[c].given[1].at <= call[c].at

C5_Witness_PostedLater ==
  \E c \in Callers :
    /\ UsagePosted(c)
    /\ call[c].given[1].at < call[c].at
    /\ call[c].given[1].action = Some("Set")
    /\ EntryOf(request[c][1].body[1], "timestamp") = <<"i64", call[c].given[1].at>>

\* C6: UsageRecordParams::create called with no action gives a usage record
\* whose action is "increment".
C6_DefaultsToIncrement ==
  \A c \in Callers :
    (held[c] # None /\ held[c][1].action = None) =>
      held[c][1].params.action = Some("increment")

Local(c) == <<pc[c], call[c], held[c], request[c], calls[c], reply[c], result[c]>>

\* The request and the result of each caller's operation are those of its own
\* arguments and its own reply.
C7_OwnArguments ==
  \A c \in Callers :
    /\ request[c] = OwnRequest(call[c])
    /\ (pc[c] = "done" /\ reply[c] # None) =>
         result[c] = Some(ClientResult(call[c].fn, reply[c][1]))

\* Every operation under way or finished has issued exactly one client call.
C7_ExactlyOneCall ==
  \A c \in Callers :
    pc[c] \in {"waiting", "done"} => calls[c] = 1 /\ request[c] # None

\* The same, but for a cancel whose encoding failed, which has issued none.
C7_OneCallUnlessEncodeFails ==
  \A c \in Callers :
    /\ calls[c] <= 1
    /\ pc[c] \in {"waiting", "done"} =>
         IF call[c].fn = "Subscription::cancel" /\ ~call[c].encodes
           THEN calls[c] = 0 /\ request[c] = None /\ pc[c] = "done"
           ELSE calls[c] = 1 /\ request[c] # None

C7_OneCallerPerStep ==
  \A c, d \in Callers :
    (c # d /\ Local(c)' # Local(c)) => Local(d)' = Local(d)

\* C7 as stated: under any interleaving of the callers' operations, each
\* operation issues a single synchronous client call whose verb, path and
\* payload are a function of its own arguments, and a step of one caller leaves
\* the arguments, request and result of every other caller as they were.
C7_SingleCallEach ==
  [][C7_OneCallerPerStep /\ C7_OwnArguments' /\ C7_ExactlyOneCall']_vars

\* C7 as amended: each operation issues at most one synchronous client call,
\* exactly one unless it is a cancel whose query-string encoding failed, which
\* issues none; the rest as stated.
C7_NoSharedState ==
  [][C7_OneCallerPerStep /\ C7_OwnArguments' /\ C7_OneCallUnlessEncodeFails']_vars

C7_Witness_Interleaved ==
  \E c, d \in Callers :
    /\ c # d
    /\ pc[c] = "done" /\ reply[c] # None /\ IsOk(result[c][1])
    /\ pc[d] = "waiting"
    /\ call[c].fn = "Subscription::retrieve"
    /\ call[d].fn = "Subscription::cancel"
    /\ call[c].id # call[d].id
    /\ request[c][1].path = "/subscriptions/" \o call[c].id
    /\ request[d][1].path = "/subscriptions/" \o call[d].id \o "?at_period_end=true"


\* The fields the resources declare as Option.
OptionalFields(kind) ==
  CASE kind = "Subscription" ->
         {"application_fee_percent", "canceled_at", "created", "discount",
          "ended_at", "quantity", "tax_percent", "trial_start", "trial_end"}
    [] kind = "SubscriptionItem" -> {"quantity"}
    [] kind = "UsageRecord" -> {}

\* The required fields C8 names.
RequiredByClaim(kind) ==
  CASE kind = "Subscription" ->
         {"id", "customer", "status", "current_period_start",
          "current_period_end", "items", "plan", "start"}
    [] kind = "UsageRecord" -> {"id", "quantity", "subscription_item", "timestamp"}
    [] OTHER -> {}

Content(v) == IF v[1] = "obj" THEN v[3] ELSE v[2]

\* Resource rec has every field equal to the JSON object's value for it.
RECURSIVE MatchesJson(_, _, _)
MatchesJson(kind, json, rec) ==
  /\ DOMAIN rec = DOMAIN json
  /\ \A n \in DOMAIN json :
       IF json[n] \in {Absent, JNull} THEN rec[n] = None
       ELSE IF n \in OptionalFields(kind) THEN rec[n] = Some(Content(json[n]))
       ELSE IF json[n][1] = "list"
         THEN /\ Len(rec[n]) = Len(json[n][2])
              /\ \A i \in 1..Len(rec[n]) :
                   MatchesJson("SubscriptionItem", json[n][2][i], rec[n][i])
       ELSE rec[n] = Content(json[n])

\* The fixture differs from a valid response only in optional fields left out
\* or null (or in an empty list of items).
OnlyOptionalMissing ==
  \A n \in mutated :
    \/ n \in OptionalFields(fixtureKind) /\ fixture[n] \in {Absent, JNull}
    \/ fixture[n] = JList(<<>>)

\* C8: a response JSON object deserializes into the resource with every field
\* equal to the JSON value, an absent or null optional field becoming None; a
\* response that lacks a required field gives an error, not a resource.
C8_Deserializes ==
  decoded # None =>
    LET r == decoded[1]
    IN /\ (\E n \in RequiredByClaim(fixtureKind) : fixture[n] = Absent) => IsErr(r)
       /\ OnlyOptionalMissing => IsOk(r)
       /\ IsOk(r) => MatchesJson(fixtureKind, fixture, r[2])

C8_Witness_OptionalNone ==
  /\ decoded # None
  /\ fixtureKind = "Subscription"
  /\ fixture["quantity"] = JNull
  /\ fixture["trial_end"] = Absent
  /\ IsOk(decoded[1])
  /\ decoded[1][2].quantity = None
  /\ decoded[1][2].trial_end = None
  /\ decoded[1][2].status = "on_hold"
  /\ decoded[1][2].items[1].id = "si_1"

\* The id the remote answers with.
RemoteId(c) ==
  IF call[c].fn = "Subscription::create" THEN "sub_1" ELSE call[c].id

\* C9: no lifecycle is enforced locally: the status of a returned Subscription
\* is the status string of the remote response, whatever the string (one
\* outside trialing, active, past_due, canceled, unpaid included), and an
\* operation on a subscription already known to be canceled issues the same
\* request as on any other.
C9_NoLocalLifecycle ==
  \A c \in Callers :
    /\ \A s \in Statuses :
         (/\ pc[c] = "done"
          /\ call[c].fn \in SubscriptionOps
          /\ reply[c] = Some(<<"body", SubscriptionJson(RemoteId(c), s)>>)) =>
           /\ IsOk(result[c][1])
           /\ result[c][1][2].status = s
    /\ (call[c].known /\ call[c].fn \in SubscriptionOps) =>
         /\ request[c] = OwnRequest(call[c])
         /\ call[c].encodes => (request[c] # None /\ calls[c] = 1)

C9_Witness_UpdateOfCanceled ==
  \E c \in Callers :
    /\ call[c].fn = "Subscription::update"
    /\ call[c].known
    /\ pc[c] = "done"
    /\ request[c] # None
    /\ IsOk(result[c][1])
    /\ result[c][1][2].status = "on_hold"

\* The query string C10 gives for each value of at_period_end.
ClaimedQuery(params) ==
  IF params.at_period_end = None THEN ""
  ELSE IF params.at_period_end[1] THEN "at_period_end=true"
  ELSE "at_period_end=false"

\* C10: cancel always appends "?" and the encoded parameters to the path:
\* "/subscriptions/{id}?at_period_end=b" for Some(b) and "/subscriptions/{id}?"
\* for None; the parameters travel in the URL only, never in a body.
C10_CancelUrl ==
  \A c \in Callers :
    (call[c].fn = "Subscription::cancel" /\ request[c] # None) =>
      /\ request[c][1].verb = "DELETE"
      /\ request[c][1].path =
           "/subscriptions/" \o call[c].id \o "?" \o ClaimedQuery(call[c].params)
      /\ request[c][1].body = None

C10_Witness_EmptyQuery ==
  \E c \in Callers :
    /\ call[c].fn = "Subscription::cancel"
    /\ call[c].params = DefaultCancelParams
    /\ call[c].id = "sub_1"
    /\ request[c] # None
    /\ request[c][1].path = "/subscriptions/sub_1?"

====
